---- MODULE Spec2Model ----
(***************************************************************************)
(* PongRank: the rating engine (calculateElo, computeRankings) and the     *)
(* match submission handler of the App component, src/unnamed/part_001.    *)
(*                                                                         *)
(* Two specifications share the module:                                    *)
(*   Spec     one call of computeRankings(matches, players), replayed      *)
(*            step by step on inputs drawn from bounded sets;              *)
(*   AppSpec  the App component: the store's two collections, the two      *)
(*            snapshot listeners, and the handlers that write the store.   *)
(***************************************************************************)
EXTENDS Integers, Sequences, FiniteSets, TLC

(***************************************************************************)
(* Bounds of the model.                                                    *)
(***************************************************************************)
MaxMatches == 2
MaxRoster == 2
MaxCalls == 2
MaxDocs == 2

(***************************************************************************)
(* Program constants (part_001:44-45).                                     *)
(***************************************************************************)
INITIAL_RATING == 1200
K_FACTOR == 32

(***************************************************************************)
(* Input domains.  A name is a JavaScript string; "7" is a canonical array *)
(* index, which an ordinary object enumerates before its other keys.       *)
(* Names are not names of Object.prototype members.                        *)
(***************************************************************************)
MatchNames == {"Ana", "7"}

\* <<player1, player2>> of a match; <<"Ana", "Ana">> is a match of a player
\* against itself, which computeRankings does not refuse.
MatchPairs == { <<"Ana", "7">>, <<"7", "Ana">>, <<"Ana", "Ana">> }

PlayerPool ==
  { [id |-> "p1", fullName |-> "Ana", nicknames |-> <<"Aninha">>, category |-> "A"],
    [id |-> "p2", fullName |-> "Bob", nicknames |-> <<"Bobby">>,  category |-> "B"],
    [id |-> "p3", fullName |-> "Ana", nicknames |-> <<"Nana">>,   category |-> "C"] }

ScorePairs == { <<3, 1>>, <<1, 3>>, <<2, 2>> }

Timestamps == {1, 2}

MatchPool ==
  { [player1 |-> pr[1], score1 |-> sc[1], player2 |-> pr[2], score2 |-> sc[2],
     timestamp |-> t] :
      pr \in MatchPairs, sc \in ScorePairs, t \in Timestamps }

SeqsUpTo(S, n) == UNION { [1..k -> S] : k \in 0..n }

\* A roster: documents of the players collection, each at most once.
Rosters ==
  { r \in SeqsUpTo(PlayerPool, MaxRoster) :
      \A a, b \in 1..Len(r) : a # b => r[a].id # r[b].id }

(***************************************************************************)
(* calculateElo.  The second argument of Math.pow is (ratingB-ratingA)/400 *)
(* and ratings are integers, so K_FACTOR * expectedScoreA depends on the   *)
(* integer d = ratingB - ratingA alone.  Math.round(x) is floor(x + 0.5),  *)
(* hence Math.round(ratingA + 32*(s - e)) = ratingA + 32*s - L(d), where   *)
(* L(d) is the number of k in 0..31 with 32*e > k + 1/2, that is with      *)
(* 10^(d/400) < (63-2k)/(2k+1), that is with d < 400*log10((63-2k)/(2k+1)).*)
(* EloThreshold[k+1] is the least integer not below that bound; no bound   *)
(* is an integer and 32*e stays 7e-4 away from every half-integer, far     *)
(* beyond the error of a double.                                           *)
(***************************************************************************)
EloThreshold ==
  << 720, 524, 429, 365, 315, 274, 238, 206, 177, 150, 125, 101, 78, 55, 33, 11,
     -10, -32, -54, -77, -100, -124, -149, -176, -205, -237, -273, -314, -364,
     -428, -523, -719 >>

\* Math.round(K_FACTOR * expectedScoreA) for d = ratingB - ratingA.
RoundedExpected(d) == Cardinality({ k \in 1..K_FACTOR : d < EloThreshold[k] })

\* Mutant: the rating difference of the expected score is taken the other
\* way round.
calculateEloGapReversed(ratingA, ratingB, actualScoreA2) ==
  ratingA + (K_FACTOR \div 2) * actualScoreA2 - RoundedExpected(ratingA - ratingB)

\* Mutant: the actual score is not halved (a tie counts 1, a win 2).
calculateEloFullScore(ratingA, ratingB, actualScoreA2) ==
  ratingA + K_FACTOR * actualScoreA2 - RoundedExpected(ratingB - ratingA)

\* actualScoreA2 is twice the actual score: 0 (loss), 1 (tie, 0.5), 2 (win).
calculateElo(ratingA, ratingB, actualScoreA2) ==
  ratingA + (K_FACTOR \div 2) * actualScoreA2 - RoundedExpected(ratingB - ratingA)

(***************************************************************************)
(* The stats object of computeRankings: Record<string, PlayerStats>.       *)
(* It is modelled as the sequence of its values in the order in which the  *)
(* properties were created; assigning to an existing key keeps the key's   *)
(* place.                                                                  *)
(***************************************************************************)
HasKey(stats, name) == \E k \in 1..Len(stats) : stats[k].name = name

Lookup(stats, name) == stats[CHOOSE k \in 1..Len(stats) : stats[k].name = name]

\* Mutant: every assignment creates a new entry.
SetKeyAppend(stats, rec) == Append(stats, rec)

\* stats[rec.name] = rec
SetKey(stats, rec) ==
  IF HasKey(stats, rec.name)
    THEN [k \in 1..Len(stats) |-> IF stats[k].name = rec.name THEN rec ELSE stats[k]]
    ELSE Append(stats, rec)

\* Mutant: a roster player starts with one match played.
RosterStatsPlayed(p) ==
  [name |-> p.fullName, nicknames |-> p.nicknames, category |-> p.category,
   rating |-> INITIAL_RATING, wins |-> 0, losses |-> 0, matchesPlayed |-> 1]

\* The record built for a roster player (part_001:64-72).
RosterStats(p) ==
  [name |-> p.fullName, nicknames |-> p.nicknames, category |-> p.category,
   rating |-> INITIAL_RATING, wins |-> 0, losses |-> 0, matchesPlayed |-> 0]

\* Mutant: a synthesized record starts below the baseline.
GhostStatsLow(name) ==
  [name |-> name, nicknames |-> <<"Desconhecido">>, category |-> "?",
   rating |-> INITIAL_RATING - 200, wins |-> 0, losses |-> 0, matchesPlayed |-> 0]

\* Mutant: a synthesized record looks like the record of a roster player.
GhostStatsAsPlayer(name) ==
  [name |-> name, nicknames |-> <<name>>, category |-> "C",
   rating |-> INITIAL_RATING, wins |-> 0, losses |-> 0, matchesPlayed |-> 0]

\* The record built for a name with no stats entry (part_001:82-90).
GhostStats(name) ==
  [name |-> name, nicknames |-> <<"Desconhecido">>, category |-> "?",
   rating |-> INITIAL_RATING, wins |-> 0, losses |-> 0, matchesPlayed |-> 0]

\* players.forEach(p => { stats[p.fullName] = {...} }), from the k-th player on.
RECURSIVE InitStatsFrom(_, _, _)
InitStatsFrom(stats, players, k) ==
  IF k > Len(players) THEN stats
  ELSE InitStatsFrom(SetKey(stats, RosterStats(players[k])), players, k + 1)

InitStats(players) == InitStatsFrom(<<>>, players, 1)

\* Mutant: the entry is synthesized on every call.
getPlayerFresh(stats, name) == SetKey(stats, GhostStats(name))

\* Mutant: a missing entry is not created and the call returns undefined.
getPlayerNoCreate(stats, name) == stats

\* getPlayer(name): the stats object after the call (the entry is created
\* when missing); the returned record is then Lookup(stats', name).
getPlayer(stats, name) ==
  IF ~HasKey(stats, name) THEN SetKey(stats, GhostStats(name)) ELSE stats

(***************************************************************************)
(* [...matches].sort((a, b) => a.timestamp - b.timestamp): a stable sort   *)
(* of a copy, ascending by timestamp.                                      *)
(***************************************************************************)
\* Mutant: a match is placed before the matches that share its timestamp.
RECURSIVE InsertBeforeTies(_, _)
InsertBeforeTies(sorted, m) ==
  IF sorted = <<>> THEN <<m>>
  ELSE IF sorted[Len(sorted)].timestamp - m.timestamp >= 0
    THEN Append(InsertBeforeTies(SubSeq(sorted, 1, Len(sorted) - 1), m),
                sorted[Len(sorted)])
    ELSE Append(sorted, m)

RECURSIVE InsertByTimestamp(_, _)
InsertByTimestamp(sorted, m) ==
  IF sorted = <<>> THEN <<m>>
  ELSE IF sorted[Len(sorted)].timestamp - m.timestamp > 0
    THEN Append(InsertByTimestamp(SubSeq(sorted, 1, Len(sorted) - 1), m),
                sorted[Len(sorted)])
    ELSE Append(sorted, m)

RECURSIVE SortFrom(_, _, _)
SortFrom(sorted, matches, k) ==
  IF k > Len(matches) THEN sorted
  ELSE SortFrom(InsertByTimestamp(sorted, matches[k]), matches, k + 1)

\* Mutant: the matches are replayed in array order.
SortByTimestampSkipped(matches) == matches

SortByTimestamp(matches) == SortFrom(<<>>, matches, 1)

(***************************************************************************)
(* One iteration of the replay loop (part_001:96-117).  p1 and p2 are      *)
(* references into stats, and are the same object when both names are      *)
(* equal; every write is therefore applied to stats by name, in the order  *)
(* of the code.                                                            *)
(***************************************************************************)
IncWins(stats, name) ==
  [k \in 1..Len(stats) |->
     IF stats[k].name = name THEN [stats[k] EXCEPT !.wins = @ + 1] ELSE stats[k]]

IncLosses(stats, name) ==
  [k \in 1..Len(stats) |->
     IF stats[k].name = name THEN [stats[k] EXCEPT !.losses = @ + 1] ELSE stats[k]]

IncMatchesPlayed(stats, name) ==
  [k \in 1..Len(stats) |->
     IF stats[k].name = name THEN [stats[k] EXCEPT !.matchesPlayed = @ + 1] ELSE stats[k]]

SetRating(stats, name, r) ==
  [k \in 1..Len(stats) |->
     IF stats[k].name = name THEN [stats[k] EXCEPT !.rating = r] ELSE stats[k]]

\* Mutant: a tie is scored as a loss of side 1.
ActualScoreP1TieLost(match) ==
  IF match.score1 > match.score2 THEN 2 ELSE 0

\* Twice actualScoreP1 (part_001:99-108).
ActualScoreP1(match) ==
  IF match.score1 > match.score2 THEN 2
  ELSE IF match.score2 > match.score1 THEN 0
  ELSE 1

\* Mutant: a tie counts as a win of side 1.
CountOutcomeTieWins(stats, match) ==
  IF match.score1 >= match.score2
    THEN IncLosses(IncWins(stats, match.player1), match.player2)
  ELSE IncLosses(IncWins(stats, match.player2), match.player1)

\* The win/loss counters (part_001:100-108).
CountOutcome(stats, match) ==
  IF match.score1 > match.score2
    THEN IncLosses(IncWins(stats, match.player1), match.player2)
  ELSE IF match.score2 > match.score1
    THEN IncLosses(IncWins(stats, match.player2), match.player1)
  ELSE stats

\* Mutant: side 2 is rated against side 1's new rating.
UpdateRatingsSequential(stats, match) ==
  LET r1 == Lookup(stats, match.player1).rating
      r2 == Lookup(stats, match.player2).rating
      newRatingP1 == calculateElo(r1, r2, ActualScoreP1(match))
      newRatingP2 == calculateElo(r2, newRatingP1, 2 - ActualScoreP1(match))
  IN  SetRating(SetRating(stats, match.player1, newRatingP1),
                match.player2, newRatingP2)

\* Both new ratings are computed before either is stored (part_001:110-114).
UpdateRatings(stats, match) ==
  LET r1 == Lookup(stats, match.player1).rating
      r2 == Lookup(stats, match.player2).rating
      newRatingP1 == calculateElo(r1, r2, ActualScoreP1(match))
      newRatingP2 == calculateElo(r2, r1, 2 - ActualScoreP1(match))
  IN  SetRating(SetRating(stats, match.player1, newRatingP1),
                match.player2, newRatingP2)

\* Mutant: only side 1 is counted as having played.
ReplayMatchSide1Played(stats, match) ==
  LET s1 == getPlayer(getPlayer(stats, match.player1), match.player2)
      s2 == CountOutcome(s1, match)
      s3 == UpdateRatings(s2, match)
  IN  IncMatchesPlayed(s3, match.player1)

ReplayMatch(stats, match) ==
  LET s1 == getPlayer(getPlayer(stats, match.player1), match.player2)
      s2 == CountOutcome(s1, match)
      s3 == UpdateRatings(s2, match)
  IN  IncMatchesPlayed(IncMatchesPlayed(s3, match.player1), match.player2)

RECURSIVE ReplayFrom(_, _, _)
ReplayFrom(stats, sortedMatches, k) ==
  IF k > Len(sortedMatches) THEN stats
  ELSE ReplayFrom(ReplayMatch(stats, sortedMatches[k]), sortedMatches, k + 1)

(***************************************************************************)
(* Object.values(stats): the keys that are canonical array indices first,  *)
(* in ascending numeric order, then the other keys in creation order.      *)
(***************************************************************************)
ArrayIndex(name) == IF name = "7" THEN 7 ELSE -1

RECURSIVE InsertByIndex(_, _)
InsertByIndex(sorted, rec) ==
  IF sorted = <<>> THEN <<rec>>
  ELSE IF ArrayIndex(sorted[Len(sorted)].name) > ArrayIndex(rec.name)
    THEN Append(InsertByIndex(SubSeq(sorted, 1, Len(sorted) - 1), rec),
                sorted[Len(sorted)])
    ELSE Append(sorted, rec)

RECURSIVE IndexKeysFrom(_, _, _)
IndexKeysFrom(sorted, stats, k) ==
  IF k > Len(stats) THEN sorted
  ELSE IndexKeysFrom(IF ArrayIndex(stats[k].name) >= 0
                       THEN InsertByIndex(sorted, stats[k]) ELSE sorted,
                     stats, k + 1)

RECURSIVE StringKeysFrom(_, _)
StringKeysFrom(stats, k) ==
  IF k > Len(stats) THEN <<>>
  ELSE (IF ArrayIndex(stats[k].name) < 0 THEN <<stats[k]>> ELSE <<>>)
       \o StringKeysFrom(stats, k + 1)

ObjectValues(stats) == IndexKeysFrom(<<>>, stats, 1) \o StringKeysFrom(stats, 1)

\* .sort((a, b) => b.rating - a.rating): stable, descending by rating.
RECURSIVE InsertByRating(_, _)
InsertByRating(sorted, rec) ==
  IF sorted = <<>> THEN <<rec>>
  ELSE IF rec.rating - sorted[Len(sorted)].rating > 0
    THEN Append(InsertByRating(SubSeq(sorted, 1, Len(sorted) - 1), rec),
                sorted[Len(sorted)])
    ELSE Append(sorted, rec)

RECURSIVE SortByRatingFrom(_, _, _)
SortByRatingFrom(sorted, values, k) ==
  IF k > Len(values) THEN sorted
  ELSE SortByRatingFrom(InsertByRating(sorted, values[k]), values, k + 1)

\* Mutant: the values are returned unsorted.
SortByRatingSkipped(values) == values

SortByRating(values) == SortByRatingFrom(<<>>, values, 1)

\* The whole function, as one value.
computeRankings(matches, players) ==
  SortByRating(ObjectValues(
    ReplayFrom(InitStats(players), SortByTimestamp(matches), 1)))

(***************************************************************************)
(* Input domains of the App component.                                     *)
(***************************************************************************)
\* The store's players collection when the App mounts: documents written
\* by earlier sessions, in document order, no name twice.
StoredRosters ==
  { r \in Rosters :
      \A a, b \in 1..Len(r) : a # b => r[a].fullName # r[b].fullName }

\* Texts of the input field or of a speech transcript.
Texts == { "", "  ", "Ana 3 Bob 1" }

\* String.prototype.trim on Texts.
Trim(text) ==
  IF text = "  " THEN "" ELSE IF text = "Ana " THEN "Ana" ELSE text

\* <<player1, player2>> of a result of the parsing call: the response
\* schema types both as strings and nothing ties them to playersList.
ResultPairs == { <<"Ana", "Bob">>, <<"Ana", "7">>, <<"Ana", "Ana">> }

\* response.data of the processMatch callable (functions/index.mjs:54-66).
\* matchDate <<>> is null; <<t>> is an ISO date that denotes the time t.
ParseResults ==
  { [valid |-> v, player1 |-> pr[1], score1 |-> 3, player2 |-> pr[2], score2 |-> 1,
     matchDate |-> d] :
      v \in BOOLEAN, pr \in ResultPairs, d \in {<<>>, <<1>>} }

ErrNeedPlayers == "Cadastre pelo menos 2 jogadores antes de registrar partidas."
ErrNotUnderstood ==
  "Nao entendi ou jogadores nao encontrados. Use nomes cadastrados (ex: 'Koba 3 Vini 1')."
ErrSamePlayer == "Os jogadores devem ser pessoas diferentes."
ErrCallFailed == "Erro ao processar. Tente novamente."

(***************************************************************************)
(* State.                                                                  *)
(*  players, matches   Spec: the arguments of the computeRankings call;    *)
(*                     AppSpec: the App's state of the same names          *)
(*  rankings           the array computeRankings returns                   *)
(*  pc                 the position in computeRankings ("app" in AppSpec)  *)
(*  stats              the stats object                                    *)
(*  sortedMatches      the sorted copy of matches                          *)
(*  next               the index in sortedMatches of the next loop turn    *)
(*  dbPlayers          the store's players collection, in document order   *)
(*  dbMatches          the store's matches collection                      *)
(*  playersPending     a players snapshot is due to the listener           *)
(*  matchesPending     a matches snapshot is due to the listener           *)
(*  inputText, isProcessing, error   the App's state of the same names     *)
(*  calls              the handleProcessMatch calls that are suspended at  *)
(*                     an await, each with the players its closure holds   *)
(*  nextId             the number of the next document the store creates   *)
(***************************************************************************)
VARIABLES players, matches, rankings, pc, stats, sortedMatches, next,
          dbPlayers, dbMatches, playersPending, matchesPending,
          inputText, isProcessing, error, calls, nextId,
          showPlayerModal, playerToEdit, newPlayerName, newPlayerNick,
          newPlayerCategory, isListening

engineVars == <<pc, stats, sortedMatches, next>>

appVars == <<dbPlayers, dbMatches, playersPending, matchesPending,
             inputText, isProcessing, error, calls, nextId, isListening>>

formVars == <<showPlayerModal, playerToEdit, newPlayerName, newPlayerNick,
              newPlayerCategory>>

vars == <<players, matches, rankings, engineVars, appVars, formVars>>

\* The player form as useState creates it (part_001:154, 171-177) and as
\* resetPlayerForm leaves it; playerToEdit is <<>> for null.
BlankForm ==
  /\ showPlayerModal = FALSE
  /\ playerToEdit = <<>>
  /\ newPlayerName = ""
  /\ newPlayerNick = ""
  /\ newPlayerCategory = "C"

(***************************************************************************)
(* Spec: one call of computeRankings.                                      *)
(***************************************************************************)
Init ==
  /\ players \in Rosters
  /\ matches \in SeqsUpTo(MatchPool, MaxMatches)
  /\ pc = "forEach"
  /\ stats = <<>>
  /\ sortedMatches = <<>>
  /\ next = 1
  /\ rankings = <<>>
  /\ dbPlayers = <<>>
  /\ dbMatches = {}
  /\ playersPending = FALSE
  /\ matchesPending = FALSE
  /\ inputText = ""
  /\ isProcessing = FALSE
  /\ error = "null"
  /\ calls = <<>>
  /\ nextId = 1
  /\ isListening = FALSE
  /\ BlankForm

\* part_001:60-73
InitializeStats ==
  /\ pc = "forEach"
  /\ stats' = InitStats(players)
  /\ pc' = "sort"
  /\ UNCHANGED <<players, matches, sortedMatches, next, rankings, appVars, formVars>>

\* Mutant: array.sort(...), which sorts the array it is called on and
\* returns it.
SortedInPlace(array) ==
  [source |-> SortByTimestamp(array), sorted |-> SortByTimestamp(array)]

\* [...array].sort(...) (part_001:76): what the array spread from holds
\* afterwards, and the array that sort returns. The spread allocates a new
\* array and sort reorders that one.
SortedCopy(array) ==
  [source |-> array, sorted |-> SortByTimestamp(array)]

\* part_001:76
SortMatches ==
  /\ pc = "sort"
  /\ sortedMatches' = SortedCopy(matches).sorted
  /\ matches' = SortedCopy(matches).source
  /\ next' = 1
  /\ pc' = "loop"
  /\ UNCHANGED <<players, stats, rankings, appVars, formVars>>

\* p1 and p2 of part_001:96-97 are records: reading p1.rating or p1.wins of
\* undefined (part_001:100-117) is a TypeError that ends the call.
Defined(stats0, match) ==
  /\ HasKey(getPlayer(stats0, match.player1), match.player1)
  /\ HasKey(getPlayer(getPlayer(stats0, match.player1), match.player2),
            match.player2)

\* part_001:95-118, one turn of the loop
ReplayNext ==
  /\ pc = "loop"
  /\ next <= Len(sortedMatches)
  /\ IF Defined(stats, sortedMatches[next])
       THEN /\ stats' = ReplayMatch(stats, sortedMatches[next])
            /\ next' = next + 1
            /\ UNCHANGED pc
       ELSE /\ pc' = "threw"
            /\ UNCHANGED <<stats, next>>
  /\ UNCHANGED <<players, matches, sortedMatches, rankings, appVars, formVars>>

\* part_001:120
ReturnRankings ==
  /\ pc = "loop"
  /\ next > Len(sortedMatches)
  /\ rankings' = SortByRating(ObjectValues(stats))
  /\ pc' = "done"
  /\ UNCHANGED <<players, matches, stats, sortedMatches, next, appVars, formVars>>

Next == InitializeStats \/ SortMatches \/ ReplayNext \/ ReturnRankings

Spec == Init /\ [][Next]_vars

(***************************************************************************)
(* One turn of the loop on records as earlier matches may have left them:  *)
(* side 1 at 1200, side 2 anywhere within MaxRatingGap of it, and a third  *)
(* record that does not play.                                              *)
(***************************************************************************)
MaxRatingGap == 800

\* A roster player of the given name.
Registered(name) ==
  [id |-> "px", fullName |-> name, nicknames |-> <<name>>, category |-> "E"]

RatedMatches ==
  { m \in MatchPool : m.player1 # m.player2 /\ m.timestamp = 1 }

RatedStats(match, rating2) ==
  << [RosterStats(Registered(match.player1)) EXCEPT !.rating = INITIAL_RATING],
     [RosterStats(Registered(match.player2)) EXCEPT !.rating = rating2],
     RosterStats(Registered("Bob")) >>

RatingInit ==
  /\ players = <<>>
  /\ matches \in { <<m>> : m \in RatedMatches }
  /\ sortedMatches = matches
  /\ pc = "loop"
  /\ next = 1
  /\ \E rating2 \in (INITIAL_RATING - MaxRatingGap)..
                      (INITIAL_RATING + MaxRatingGap) :
       stats = RatedStats(matches[1], rating2)
  /\ rankings = <<>>
  /\ dbPlayers = <<>>
  /\ dbMatches = {}
  /\ playersPending = FALSE
  /\ matchesPending = FALSE
  /\ inputText = ""
  /\ isProcessing = FALSE
  /\ error = "null"
  /\ calls = <<>>
  /\ nextId = 1
  /\ isListening = FALSE
  /\ BlankForm

RatingNext == ReplayNext \/ ReturnRankings

RatingSpec == RatingInit /\ [][RatingNext]_vars

(***************************************************************************)
(* The same call on inputs at the edge of the types: scores below zero,    *)
(* scores of zero, a player on both sides, every match at one timestamp.   *)
(***************************************************************************)
EdgeScorePairs == { <<-1, -3>>, <<-2, -2>>, <<0, 0>> }

EdgeMatchPool ==
  { [player1 |-> pr[1], score1 |-> sc[1], player2 |-> pr[2],
     score2 |-> sc[2], timestamp |-> 1] :
      pr \in MatchPairs, sc \in EdgeScorePairs }

EdgeInit ==
  /\ players \in Rosters
  /\ matches \in SeqsUpTo(EdgeMatchPool, MaxMatches)
  /\ pc = "forEach"
  /\ stats = <<>>
  /\ sortedMatches = <<>>
  /\ next = 1
  /\ rankings = <<>>
  /\ dbPlayers = <<>>
  /\ dbMatches = {}
  /\ playersPending = FALSE
  /\ matchesPending = FALSE
  /\ inputText = ""
  /\ isProcessing = FALSE
  /\ error = "null"
  /\ calls = <<>>
  /\ nextId = 1
  /\ isListening = FALSE
  /\ BlankForm

EdgeSpec == EdgeInit /\ [][Next]_vars

(***************************************************************************)
(* AppSpec: the App component against the store.                           *)
(***************************************************************************)
AppInit ==
  /\ players = <<>>
  /\ matches = <<>>
  /\ rankings = <<>>
  /\ pc = "app"
  /\ stats = <<>>
  /\ sortedMatches = <<>>
  /\ next = 1
  /\ dbPlayers \in StoredRosters
  /\ dbMatches = {}
  /\ playersPending = TRUE
  /\ matchesPending = TRUE
  /\ inputText = ""
  /\ isProcessing = FALSE
  /\ error = "null"
  /\ calls = <<>>
  /\ nextId = 1
  /\ isListening = FALSE
  /\ BlankForm

\* query(collection(db, "matches"), orderBy("timestamp", "asc")): the
\* documents by timestamp, documents of one timestamp by document id.
RECURSIVE QueryMatches(_)
QueryMatches(docs) ==
  IF docs = {} THEN <<>>
  ELSE LET first == CHOOSE m \in docs :
                      \A o \in docs :
                        \/ m.timestamp < o.timestamp
                        \/ (m.timestamp = o.timestamp /\ m.id <= o.id)
       IN  <<first>> \o QueryMatches(docs \ {first})

\* The matches listener (part_001:133-136) and the render that follows.
MatchesSnapshot ==
  /\ pc = "app"
  /\ matchesPending
  /\ matchesPending' = FALSE
  /\ matches' = QueryMatches(dbMatches)
  /\ rankings' = computeRankings(matches', players)
  /\ UNCHANGED <<players, engineVars, formVars, dbPlayers, dbMatches, playersPending,
                 inputText, isProcessing, error, calls, nextId,
                 isListening>>

\* The players listener (part_001:139-142) and the render that follows.
PlayersSnapshot ==
  /\ pc = "app"
  /\ playersPending
  /\ playersPending' = FALSE
  /\ players' = dbPlayers
  /\ rankings' = computeRankings(matches, players')
  /\ UNCHANGED <<matches, engineVars, formVars, dbPlayers, dbMatches, matchesPending,
                 inputText, isProcessing, error, calls, nextId,
                 isListening>>

\* onChange of the input field (part_001:522), which isProcessing disables.
TypeText(text) ==
  /\ pc = "app"
  /\ ~isProcessing
  /\ inputText # text
  /\ inputText' = text
  /\ UNCHANGED <<players, matches, rankings, engineVars, formVars, dbPlayers, dbMatches,
                 playersPending, matchesPending, isProcessing, error, calls, nextId,
                 isListening>>

\* Mutant: the size of the roster is not looked at.
HandleProcessMatchAnyRoster(text) ==
  IF Trim(text) = ""
    THEN UNCHANGED <<isProcessing, error, calls>>
  ELSE /\ isProcessing' = TRUE
       /\ error' = "null"
       /\ calls' = Append(calls, [at |-> "processMatch", players |-> players])

\* handleProcessMatch(text) up to its first await (part_001:230-245).
HandleProcessMatch(text) ==
  IF Trim(text) = ""
    THEN UNCHANGED <<isProcessing, error, calls>>
  ELSE IF Len(players) < 2
    THEN /\ error' = ErrNeedPlayers
         /\ UNCHANGED <<isProcessing, calls>>
  ELSE /\ isProcessing' = TRUE
       /\ error' = "null"
       /\ calls' = Append(calls, [at |-> "processMatch", players |-> players])

\* Enter in the input field (part_001:523) or the send button
\* (part_001:542-543); isProcessing disables both.
SubmitTyped ==
  /\ pc = "app"
  /\ ~isProcessing
  /\ Len(calls) < MaxCalls
  /\ nextId + Len(calls) <= MaxDocs
  /\ HandleProcessMatch(inputText)
  /\ UNCHANGED <<players, matches, rankings, engineVars, formVars, dbPlayers, dbMatches,
                 playersPending, matchesPending, inputText, nextId,
                 isListening>>

RemoveAt(s, c) == SubSeq(s, 1, c - 1) \o SubSeq(s, c + 1, Len(s))

\* Mutant: a catch with no finally after it.
CatchOnly(c, message) ==
  /\ error' = message
  /\ UNCHANGED isProcessing
  /\ calls' = RemoveAt(calls, c)

\* catch and finally of handleProcessMatch (part_001:272-277).
CatchFinally(c, message) ==
  /\ error' = message
  /\ isProcessing' = FALSE
  /\ calls' = RemoveAt(calls, c)

\* Date.now(): the clock advances with every document the store creates.
Now == nextId

\* newMatch (part_001:257-263).
NewMatch(result) ==
  [player1 |-> result.player1, score1 |-> result.score1,
   player2 |-> result.player2, score2 |-> result.score2,
   timestamp |-> IF result.matchDate # <<>> THEN result.matchDate[1] ELSE Now]

\* The parsing call returns and only the valid flag is looked at.
ProcessMatchReturnsSamePlayerAllowed(c, result) ==
  /\ pc = "app"
  /\ c \in 1..Len(calls)
  /\ calls[c].at = "processMatch"
  /\ IF ~result.valid
       THEN CatchFinally(c, ErrNotUnderstood)
     ELSE /\ calls' = [calls EXCEPT ![c] =
                         [at |-> "addDoc", players |-> calls[c].players,
                          newMatch |-> NewMatch(result)]]
          /\ UNCHANGED <<isProcessing, error>>
  /\ UNCHANGED <<players, matches, rankings, engineVars, formVars, dbPlayers, dbMatches,
                 playersPending, matchesPending, inputText, nextId,
                 isListening>>

\* The parsing call returns (part_001:245-265, up to the await of addDoc).
ProcessMatchReturns(c, result) ==
  /\ pc = "app"
  /\ c \in 1..Len(calls)
  /\ calls[c].at = "processMatch"
  /\ IF ~result.valid
       THEN CatchFinally(c, ErrNotUnderstood)
     ELSE IF result.player1 = result.player2
       THEN CatchFinally(c, ErrSamePlayer)
     ELSE /\ calls' = [calls EXCEPT ![c] =
                         [at |-> "addDoc", players |-> calls[c].players,
                          newMatch |-> NewMatch(result)]]
          /\ UNCHANGED <<isProcessing, error>>
  /\ UNCHANGED <<players, matches, rankings, engineVars, formVars, dbPlayers, dbMatches,
                 playersPending, matchesPending, inputText, nextId,
                 isListening>>

\* The parsing call throws (part_001:245, 272-277).
ProcessMatchFails(c) ==
  /\ pc = "app"
  /\ c \in 1..Len(calls)
  /\ calls[c].at = "processMatch"
  /\ CatchFinally(c, ErrCallFailed)
  /\ UNCHANGED <<players, matches, rankings, engineVars, formVars, dbPlayers, dbMatches,
                 playersPending, matchesPending, inputText, nextId,
                 isListening>>

\* addDoc resolves: the store holds the document under a new id
\* (part_001:265-277).
AddDocResolves(c) ==
  /\ pc = "app"
  /\ c \in 1..Len(calls)
  /\ calls[c].at = "addDoc"
  /\ dbMatches' = dbMatches \cup
       { [id |-> nextId, player1 |-> calls[c].newMatch.player1,
          score1 |-> calls[c].newMatch.score1,
          player2 |-> calls[c].newMatch.player2,
          score2 |-> calls[c].newMatch.score2,
          timestamp |-> calls[c].newMatch.timestamp] }
  /\ nextId' = nextId + 1
  /\ matchesPending' = TRUE
  /\ inputText' = ""
  /\ isProcessing' = FALSE
  /\ calls' = RemoveAt(calls, c)
  /\ UNCHANGED <<players, matches, rankings, engineVars, formVars, dbPlayers,
                 playersPending, error,
                 isListening>>

\* addDoc rejects (part_001:265, 272-277).
AddDocRejects(c) ==
  /\ pc = "app"
  /\ c \in 1..Len(calls)
  /\ calls[c].at = "addDoc"
  /\ CatchFinally(c, ErrCallFailed)
  /\ UNCHANGED <<players, matches, rankings, engineVars, formVars, dbPlayers, dbMatches,
                 playersPending, matchesPending, inputText, nextId,
                 isListening>>

\* A deletion that also removes the matches naming the deleted player.
HandleDeletePlayerCascade(k) ==
  /\ pc = "app"
  /\ k \in 1..Len(players)
  /\ dbPlayers' = SelectSeq(dbPlayers, LAMBDA p : p.id # players[k].id)
  /\ playersPending' = TRUE
  /\ dbMatches' = { m \in dbMatches : /\ m.player1 # players[k].fullName
                                       /\ m.player2 # players[k].fullName }
  /\ matchesPending' = TRUE
  /\ UNCHANGED <<players, matches, rankings, engineVars, formVars,
                 inputText, isProcessing, error, calls, nextId,
                 isListening>>

\* handleDeletePlayer(id), confirmed, deleteDoc resolving (part_001:338-346).
HandleDeletePlayer(k) ==
  /\ pc = "app"
  /\ k \in 1..Len(players)
  /\ dbPlayers' = SelectSeq(dbPlayers, LAMBDA p : p.id # players[k].id)
  /\ playersPending' = TRUE
  /\ UNCHANGED <<players, matches, rankings, engineVars, formVars, dbMatches,
                 matchesPending, inputText, isProcessing, error, calls, nextId,
                 isListening>>

\* The template string of part_001:364 for the matches the parsing call can
\* make: "Ana" with 3 against "Bob" or "7" with 1.
MatchText(match) ==
  IF match.player2 = "Bob" THEN "Ana 3 Bob 1" ELSE "Ana 3 7 1"

\* An edit that keeps the document and rewrites it.
handleEditMatchInPlace(k) ==
  /\ pc = "app"
  /\ k \in 1..Len(matches)
  /\ inputText' = MatchText(matches[k])
  /\ dbMatches' = { IF m.id = matches[k].id
                      THEN [m EXCEPT !.timestamp = Now] ELSE m :
                      m \in dbMatches }
  /\ matchesPending' = TRUE
  /\ UNCHANGED <<players, matches, rankings, engineVars, formVars, dbPlayers,
                 playersPending, isProcessing, error, calls, nextId,
                 isListening>>

\* handleEditMatch(match) for a match of the rendered list, deleteDoc
\* resolving (part_001:363-371, 693).
handleEditMatch(k) ==
  /\ pc = "app"
  /\ k \in 1..Len(matches)
  /\ inputText' = MatchText(matches[k])
  /\ dbMatches' = { m \in dbMatches : m.id # matches[k].id }
  /\ matchesPending' = TRUE
  /\ UNCHANGED <<players, matches, rankings, engineVars, formVars, dbPlayers,
                 playersPending, isProcessing, error, calls, nextId,
                 isListening>>

\* What the speech recognition hears.
Transcripts == { "Ana 3 Bob 1" }

\* toggleListening (part_001:215-227), from the microphone button of the
\* desktop layout (part_001:530-531), which isProcessing does not disable;
\* the browser has speech recognition.
toggleListening ==
  /\ pc = "app"
  /\ IF isListening
       THEN UNCHANGED <<error, isListening>>
       ELSE /\ error' = "null"
            /\ isListening' = TRUE
  /\ UNCHANGED <<players, matches, rankings, engineVars, formVars, dbPlayers,
                 dbMatches, playersPending, matchesPending, inputText,
                 isProcessing, calls, nextId>>

\* recognition.onend (part_001:209-211): the recognition stops, by itself
\* or after stop(), without a result.
SpeechEnds ==
  /\ pc = "app"
  /\ isListening
  /\ isListening' = FALSE
  /\ UNCHANGED <<players, matches, rankings, engineVars, formVars, dbPlayers,
                 dbMatches, playersPending, matchesPending, inputText,
                 isProcessing, error, calls, nextId>>

\* recognition.onresult (part_001:196-201).
SpeechResult(transcript) ==
  /\ pc = "app"
  /\ isListening
  /\ Len(calls) < MaxCalls
  /\ nextId + Len(calls) <= MaxDocs
  /\ inputText' = transcript
  /\ isListening' = FALSE
  /\ HandleProcessMatch(transcript)
  /\ UNCHANGED <<players, matches, rankings, engineVars, formVars, dbPlayers,
                 dbMatches, playersPending, matchesPending, nextId>>

AppNext ==
  \/ MatchesSnapshot
  \/ PlayersSnapshot
  \/ \E text \in Texts : TypeText(text)
  \/ SubmitTyped
  \/ \E c \in 1..MaxCalls, result \in ParseResults : ProcessMatchReturns(c, result)
  \/ \E c \in 1..MaxCalls : ProcessMatchFails(c)
  \/ \E c \in 1..MaxCalls : AddDocResolves(c)
  \/ \E c \in 1..MaxCalls : AddDocRejects(c)
  \/ \E k \in 1..MaxRoster : HandleDeletePlayer(k)
  \/ toggleListening
  \/ SpeechEnds
  \/ \E transcript \in Transcripts : SpeechResult(transcript)
  \/ \E k \in 1..MaxDocs : handleEditMatch(k)

AppSpec == AppInit /\ [][AppNext]_vars

\* The parsing call of some pending submission returns or fails.
ParsingCallEnds ==
  \E c \in 1..MaxCalls :
    \/ \E result \in ParseResults : ProcessMatchReturns(c, result)
    \/ ProcessMatchFails(c)

\* The store write of some pending submission resolves or rejects.
StoreWriteEnds ==
  \E c \in 1..MaxCalls : AddDocResolves(c) \/ AddDocRejects(c)

\* The App mounted on a store that holds two players.
FairInit == AppInit /\ Len(dbPlayers) = 2 /\ dbPlayers[1].id = "p1"

\* The App with a parsing service and a store that answer every call.
AppFairSpec ==
  /\ FairInit
  /\ [][AppNext]_vars
  /\ WF_vars(ParsingCallEnds)
  /\ WF_vars(StoreWriteEnds)

(***************************************************************************)
(* The player form of App (part_001:280-346, 968-1040): opening it, typing *)
(* into it, editing a listed player, submitting and deleting.              *)
(***************************************************************************)

\* What can be typed into the name field and into the nicknames field.
NameTexts == { "", "Ana", "ana", "Ana ", "Bob" }

NickTexts == { "", "Nana, Nana" }

\* String.prototype.toLowerCase on the names above.
ToLowerCase(text) ==
  CASE text = "Ana"  -> "ana"
    [] text = "Ana " -> "ana "
    [] text = "Bob"  -> "bob"
    [] OTHER         -> text

\* nicknameArray (part_001:284): split at commas, trim, drop blanks, drop
\* repetitions.
NicknameArray(text) ==
  CASE text = ""           -> <<>>
    [] text = "Nana, Nana" -> <<"Nana">>
    [] OTHER               -> <<text>>

\* player.nicknames.join(', ') (part_001:332) for lists of at most one
\* nickname, the only ones NicknameArray makes of NickTexts.
JoinNicknames(nicknames) == IF nicknames = <<>> THEN "" ELSE nicknames[1]

\* Document ids the store gives to new player documents.
PlayerIds == << "d1", "d2", "d3", "d4", "d5" >>

\* The match collection found at mount: empty, or one match stored earlier.
StoredMatches ==
  { {},
    { [id |-> 0, player1 |-> "Ana", score1 |-> 3,
       player2 |-> "Bob", score2 |-> 1, timestamp |-> 1] } }

RosterInit ==
  /\ players = <<>>
  /\ matches = <<>>
  /\ rankings = <<>>
  /\ pc = "app"
  /\ stats = <<>>
  /\ sortedMatches = <<>>
  /\ next = 1
  /\ dbPlayers = <<>>
  /\ dbMatches \in StoredMatches
  /\ playersPending = TRUE
  /\ matchesPending = TRUE
  /\ inputText = ""
  /\ isProcessing = FALSE
  /\ error = "null"
  /\ calls = <<>>
  /\ nextId = 1
  /\ isListening = FALSE
  /\ BlankForm

\* The buttons that open the empty form (part_001:501, 598).
OpenPlayerModal ==
  /\ pc = "app"
  /\ ~showPlayerModal
  /\ showPlayerModal' = TRUE
  /\ UNCHANGED <<players, matches, rankings, engineVars, appVars,
                 playerToEdit, newPlayerName, newPlayerNick,
                 newPlayerCategory>>

\* onChange of the name field (part_001:987).
SetNewPlayerName(text) ==
  /\ pc = "app"
  /\ showPlayerModal
  /\ newPlayerName' = text
  /\ UNCHANGED <<players, matches, rankings, engineVars, appVars,
                 showPlayerModal, playerToEdit, newPlayerNick,
                 newPlayerCategory>>

\* onChange of the nicknames field (part_001:999).
SetNewPlayerNick(text) ==
  /\ pc = "app"
  /\ showPlayerModal
  /\ newPlayerNick' = text
  /\ UNCHANGED <<players, matches, rankings, engineVars, appVars,
                 showPlayerModal, playerToEdit, newPlayerName,
                 newPlayerCategory>>

\* openEditPlayer(player) for a player of the rendered list
\* (part_001:329-336, 786).
openEditPlayer(k) ==
  /\ pc = "app"
  /\ ~showPlayerModal
  /\ k \in 1..Len(players)
  /\ playerToEdit' = <<players[k]>>
  /\ newPlayerName' = players[k].fullName
  /\ newPlayerNick' = JoinNicknames(players[k].nicknames)
  /\ newPlayerCategory' = players[k].category
  /\ showPlayerModal' = TRUE
  /\ UNCHANGED <<players, matches, rankings, engineVars, appVars>>

\* resetPlayerForm (part_001:320-327).
resetPlayerForm ==
  /\ newPlayerName' = ""
  /\ newPlayerNick' = ""
  /\ newPlayerCategory' = "C"
  /\ playerToEdit' = <<>>
  /\ showPlayerModal' = FALSE

\* The close button of the form (part_001:975).
ClosePlayerModal ==
  /\ pc = "app"
  /\ showPlayerModal
  /\ resetPlayerForm
  /\ UNCHANGED <<players, matches, rankings, engineVars, appVars>>

\* otherPlayers (part_001:287).
OtherPlayers ==
  IF playerToEdit # <<>>
    THEN SelectSeq(players, LAMBDA p : p.id # playerToEdit[1].id)
    ELSE players

\* The duplicate check (part_001:289): the stored names and the name as
\* typed, both in lower case.
NameTaken ==
  \E k \in 1..Len(OtherPlayers) :
    ToLowerCase(OtherPlayers[k].fullName) = ToLowerCase(newPlayerName)

\* The fields written by updateDoc and addDoc (part_001:297-310).
PlayerFields ==
  [fullName |-> Trim(newPlayerName),
   nicknames |-> NicknameArray(newPlayerNick),
   category |-> newPlayerCategory]

\* handleRegisterPlayer (part_001:280-318) with the store call resolving;
\* updateDoc of a document that is gone rejects and the catch leaves the
\* form as it is.
handleRegisterPlayer ==
  /\ pc = "app"
  /\ showPlayerModal
  /\ IF Trim(newPlayerName) = "" \/ Trim(newPlayerNick) = ""
       THEN UNCHANGED <<dbPlayers, playersPending, nextId, formVars>>
     ELSE IF NameTaken
       THEN UNCHANGED <<dbPlayers, playersPending, nextId, formVars>>
     ELSE IF playerToEdit # <<>>
       THEN IF \E k \in 1..Len(dbPlayers) :
                 dbPlayers[k].id = playerToEdit[1].id
              THEN /\ dbPlayers' =
                        [k \in 1..Len(dbPlayers) |->
                           IF dbPlayers[k].id = playerToEdit[1].id
                             THEN [id |-> dbPlayers[k].id,
                                   fullName |-> PlayerFields.fullName,
                                   nicknames |-> PlayerFields.nicknames,
                                   category |-> PlayerFields.category]
                             ELSE dbPlayers[k]]
                   /\ playersPending' = TRUE
                   /\ resetPlayerForm
                   /\ UNCHANGED nextId
              ELSE UNCHANGED <<dbPlayers, playersPending, nextId, formVars>>
     ELSE /\ dbPlayers' =
               Append(dbPlayers,
                      [id |-> PlayerIds[nextId],
                       fullName |-> PlayerFields.fullName,
                       nicknames |-> PlayerFields.nicknames,
                       category |-> PlayerFields.category])
          /\ nextId' = nextId + 1
          /\ playersPending' = TRUE
          /\ resetPlayerForm
  /\ UNCHANGED <<players, matches, rankings, engineVars, dbMatches,
                 matchesPending, inputText, isProcessing, error, calls,
                 isListening>>

\* onSubmit of the form (part_001:980).
SubmitPlayerForm ==
  /\ playerToEdit # <<>> \/ (nextId <= MaxDocs /\ Len(dbPlayers) < MaxRoster)
  /\ handleRegisterPlayer

RosterNext ==
  \/ MatchesSnapshot
  \/ PlayersSnapshot
  \/ OpenPlayerModal
  \/ \E text \in NameTexts : SetNewPlayerName(text)
  \/ \E text \in NickTexts : SetNewPlayerNick(text)
  \/ \E k \in 1..MaxRoster : openEditPlayer(k)
  \/ ClosePlayerModal
  \/ SubmitPlayerForm
  \/ \E k \in 1..MaxRoster : HandleDeletePlayer(k)

RosterSpec == RosterInit /\ [][RosterNext]_vars

(***************************************************************************)
(* Vocabulary of the properties.                                           *)
(***************************************************************************)
RosterNames == { players[k].fullName : k \in 1..Len(players) }

PlayedNames ==
  { matches[k].player1 : k \in 1..Len(matches) } \cup
  { matches[k].player2 : k \in 1..Len(matches) }

RankedNames == { rankings[k].name : k \in 1..Len(rankings) }

Ranked(name) == rankings[CHOOSE k \in 1..Len(rankings) : rankings[k].name = name]

Permuted(s, f) == [k \in 1..Len(s) |-> s[f[k]]]

\* f keeps the matches that share a timestamp in their relative order.
KeepsTies(s, f) ==
  \A a, b \in 1..Len(s) :
    (a < b /\ s[f[a]].timestamp = s[f[b]].timestamp) => f[a] < f[b]

\* The loop is about to replay sortedMatches[next].
Replaying == pc = "loop" /\ next <= Len(sortedMatches)

Current == sortedMatches[next]

\* A counter of a name before it has a record is the counter of no record.
WinsOf(st, name) == IF HasKey(st, name) THEN Lookup(st, name).wins ELSE 0
LossesOf(st, name) == IF HasKey(st, name) THEN Lookup(st, name).losses ELSE 0
PlayedOf(st, name) == IF HasKey(st, name) THEN Lookup(st, name).matchesPlayed ELSE 0
RatingOf(st, name) == IF HasKey(st, name) THEN Lookup(st, name).rating ELSE INITIAL_RATING

(***************************************************************************)
(* C1 (as stated): computeRankings returns the same array for every        *)
(* permutation of the match array, also when matches share a timestamp.    *)
(***************************************************************************)
C1_AnyPermutationSameOutput ==
  pc = "done" =>
    \A f \in Permutations(1..Len(matches)) :
      computeRankings(Permuted(matches, f), players) = rankings

(***************************************************************************)
(* C1 (amended): computeRankings returns the same array for every          *)
(* permutation of the match array that keeps the matches sharing a         *)
(* timestamp in their relative order (every permutation, when the          *)
(* timestamps are pairwise distinct).                                      *)
(***************************************************************************)
C1_TiePreservingPermutationSameOutput ==
  pc = "done" =>
    \A f \in Permutations(1..Len(matches)) :
      KeepsTies(matches, f) =>
        computeRankings(Permuted(matches, f), players) = rankings

\* Two matches given latest first, the result depending on their order.
C1_Witness ==
  /\ pc = "done"
  /\ Len(matches) = 2
  /\ matches[1].timestamp > matches[2].timestamp
  /\ sortedMatches # matches
  /\ computeRankings(matches, players)
       # SortByRating(ObjectValues(ReplayFrom(InitStats(players), matches, 1)))

C3_RatingsNonIncreasing ==
  pc = "done" =>
    \A k \in 1..(Len(rankings) - 1) : rankings[k].rating >= rankings[k + 1].rating

\* The final sort had to move a record: the values were not in order.
C3_Witness ==
  /\ pc = "done"
  /\ Len(rankings) >= 2
  /\ rankings[1].rating > rankings[Len(rankings)].rating
  /\ ObjectValues(stats) # rankings

(***************************************************************************)
(* C4: a name of a match that is not in the roster gets one record in the  *)
(* returned array, of category "?", with the rating and counters that a    *)
(* registered player of that name gets from the same matches.              *)
(***************************************************************************)
\* The array returned when name is registered too.
AsRegistered(name) == computeRankings(matches, Append(players, Registered(name)))

C5_GhostRecordReused ==
  [][ Replaying =>
        \A name \in { Current.player1, Current.player2 } :
          (HasKey(stats, name) /\ Lookup(stats, name).category = "?") =>
            /\ Cardinality({ k \in 1..Len(stats') : stats'[k].name = name }) = 1
            /\ Lookup(stats', name).matchesPlayed > Lookup(stats, name).matchesPlayed
            /\ Lookup(stats', name).wins >= Lookup(stats, name).wins
            /\ Lookup(stats', name).losses >= Lookup(stats, name).losses
            /\ name = Current.player2 =>
                 Lookup(stats', name).rating =
                   calculateElo(Lookup(stats, name).rating,
                                RatingOf(stats, Current.player1),
                                2 - ActualScoreP1(Current))
            /\ name # Current.player2 =>
                 Lookup(stats', name).rating =
                   calculateElo(Lookup(stats, name).rating,
                                RatingOf(stats, Current.player2),
                                ActualScoreP1(Current))
    ]_vars

\* Two turns have named the same missing player, whose first match moved
\* its rating.
C5_Witness ==
  /\ pc = "loop"
  /\ next = 3
  /\ \E name \in MatchNames \ RosterNames :
       /\ name \in { sortedMatches[1].player1, sortedMatches[1].player2 }
       /\ name \in { sortedMatches[2].player1, sortedMatches[2].player2 }
       /\ sortedMatches[1].score1 # sortedMatches[1].score2
       /\ sortedMatches[1].player1 # sortedMatches[1].player2
       /\ Lookup(stats, name).category = "?"
       /\ Lookup(stats, name).matchesPlayed = 2

(***************************************************************************)
(* C6 (as stated): replaying a match with score1 = score2 changes no wins  *)
(* or losses counter and adds exactly 1 to matchesPlayed of player1 and    *)
(* of player2.                                                             *)
(***************************************************************************)
C6_TieAddsOneEach ==
  [][ (Replaying /\ Current.score1 = Current.score2) =>
        /\ \A name \in MatchNames \cup RosterNames :
             /\ WinsOf(stats', name) = WinsOf(stats, name)
             /\ LossesOf(stats', name) = LossesOf(stats, name)
        /\ \A name \in { Current.player1, Current.player2 } :
             PlayedOf(stats', name) = PlayedOf(stats, name) + 1
    ]_vars

(***************************************************************************)
(* C6 (amended): replaying a match with score1 = score2 changes no wins or *)
(* losses counter; it adds exactly 1 to matchesPlayed of player1 and of    *)
(* player2 when they are different names, and 2 to matchesPlayed of the    *)
(* one record when player1 = player2.                                      *)
(***************************************************************************)
C6_TieCountsPlayedOnly ==
  [][ (Replaying /\ Current.score1 = Current.score2) =>
        /\ \A name \in MatchNames \cup RosterNames :
             /\ WinsOf(stats', name) = WinsOf(stats, name)
             /\ LossesOf(stats', name) = LossesOf(stats, name)
        /\ \A name \in { Current.player1, Current.player2 } :
             PlayedOf(stats', name) =
               PlayedOf(stats, name) + (IF Current.player1 = Current.player2 THEN 2 ELSE 1)
    ]_vars

\* A tie between two players has been replayed after a decisive match.
C6_Witness ==
  /\ pc = "loop"
  /\ next = 3
  /\ sortedMatches[2].score1 = sortedMatches[2].score2
  /\ sortedMatches[2].player1 # sortedMatches[2].player2
  /\ sortedMatches[1].score1 # sortedMatches[1].score2
  /\ sortedMatches[1].player1 # sortedMatches[1].player2
  /\ Lookup(stats, "Ana").matchesPlayed = 2
  /\ Lookup(stats, "Ana").wins + Lookup(stats, "Ana").losses = 1

(***************************************************************************)
(* C7: a roster player named by no match is returned with rating 1200 and  *)
(* wins = losses = matchesPlayed = 0.                                      *)
(***************************************************************************)
C7_UnplayedAtBaseline ==
  pc = "done" =>
    \A name \in RosterNames \ PlayedNames :
      /\ name \in RankedNames
      /\ Ranked(name).rating = INITIAL_RATING
      /\ Ranked(name).wins = 0
      /\ Ranked(name).losses = 0
      /\ Ranked(name).matchesPlayed = 0

\* A roster player without matches next to players whose ratings moved.
C7_Witness ==
  /\ pc = "done"
  /\ Len(matches) = 2
  /\ "Bob" \in RosterNames \ PlayedNames
  /\ "Ana" \in RosterNames \cap PlayedNames
  /\ Ranked("Ana").rating # INITIAL_RATING

(***************************************************************************)
(* C8: after a single match between two different players, the two final   *)
(* ratings A and B satisfy |(A - 1200) + (B - 1200)| <= 1.                 *)
(***************************************************************************)
C8_SingleMatchNearZeroSum ==
  (pc = "done" /\ Len(matches) = 1 /\ matches[1].player1 # matches[1].player2) =>
    \E sum \in { (Ranked(matches[1].player1).rating - INITIAL_RATING)
                 + (Ranked(matches[1].player2).rating - INITIAL_RATING) } :
      sum >= -1 /\ sum <= 1

\* The single match was decisive and both ratings moved.
C8_Witness ==
  /\ pc = "done"
  /\ Len(matches) = 1
  /\ matches[1].player1 # matches[1].player2
  /\ matches[1].score1 < matches[1].score2
  /\ Ranked(matches[1].player1).rating < INITIAL_RATING
  /\ Ranked(matches[1].player2).rating > INITIAL_RATING

(***************************************************************************)
(* C9: replaying a match between two different players who both hold 1200  *)
(* sets the winner to 1216 and the loser to 1184, adding 1 to the winner's *)
(* wins and to the loser's losses; a tie leaves both at 1200.              *)
(***************************************************************************)
C9_BaselineMatchRatings ==
  [][ ( /\ Replaying
        /\ Current.player1 # Current.player2
        /\ RatingOf(stats, Current.player1) = 1200
        /\ RatingOf(stats, Current.player2) = 1200 ) =>
        \E w \in { IF Current.score1 > Current.score2
                     THEN Current.player1 ELSE Current.player2 },
           l \in { IF Current.score1 > Current.score2
                     THEN Current.player2 ELSE Current.player1 } :
          IF Current.score1 = Current.score2
            THEN /\ Lookup(stats', w).rating = 1200
                 /\ Lookup(stats', l).rating = 1200
            ELSE /\ Lookup(stats', w).rating = 1216
                 /\ Lookup(stats', l).rating = 1184
                 /\ Lookup(stats', w).wins = WinsOf(stats, w) + 1
                 /\ Lookup(stats', l).losses = LossesOf(stats, l) + 1
    ]_vars

\* Side 2 has won the first match of two players at 1200.
C9_Witness ==
  /\ pc = "loop"
  /\ next = 2
  /\ sortedMatches[1].player1 # sortedMatches[1].player2
  /\ sortedMatches[1].score2 > sortedMatches[1].score1
  /\ Lookup(stats, sortedMatches[1].player2).rating = 1216
  /\ Lookup(stats, sortedMatches[1].player1).rating = 1184

(***************************************************************************)
(* C10: every match document that handleProcessMatch adds to the store     *)
(* names, as player1 and as player2, the fullName of a player of the       *)
(* roster the call was submitted with.                                     *)
(***************************************************************************)
NamesOf(roster) == { roster[k].fullName : k \in 1..Len(roster) }

C11_RejectedResultWritesNothing ==
  [][ /\ \A c \in 1..Len(calls), result \in ParseResults :
           ( /\ ProcessMatchReturns(c, result)
             /\ (~result.valid \/ result.player1 = result.player2) ) =>
             /\ dbMatches' = dbMatches
             /\ calls' = RemoveAt(calls, c)
             /\ error' # "null"
      /\ \A m \in dbMatches' \ dbMatches : m.player1 # m.player2
    ]_vars

\* A submission has ended with the same-player error and nothing stored.
C11_Witness ==
  /\ pc = "app"
  /\ error = ErrSamePlayer
  /\ ~isProcessing
  /\ calls = <<>>
  /\ dbMatches = {}

(***************************************************************************)
(* C12: a registration or an edit that handleRegisterPlayer checks against *)
(* the roster as the store holds it never leaves the store with two        *)
(* players whose fullName values are equal when compared in lower case: it *)
(* is rejected, and writes nothing, when it would.                         *)
(***************************************************************************)
UniqueNames(roster) ==
  \A j, k \in 1..Len(roster) :
    j # k => ToLowerCase(roster[j].fullName) # ToLowerCase(roster[k].fullName)

C12_RegistrationKeepsNamesUnique ==
  [][ ( /\ handleRegisterPlayer
        /\ players = dbPlayers
        /\ UniqueNames(dbPlayers) ) => UniqueNames(dbPlayers')
    ]_vars

C14_RankingsFromOneStoreState ==
  [][ ( /\ \/ matchesPending /\ ~matchesPending'
           \/ playersPending /\ ~playersPending'
        /\ matches # <<>>
        /\ players # <<>> ) =>
        /\ matches' = QueryMatches(dbMatches')
        /\ players' = dbPlayers'
        /\ rankings' = computeRankings(QueryMatches(dbMatches'), dbPlayers')
    ]_vars

C16_InputsUnchanged ==
  [][ /\ matches' = matches
      /\ players' = players
    ]_vars

\* The call has returned for a match list that was not in timestamp order
\* and a roster player who has played.
C16_Witness ==
  /\ pc = "done"
  /\ Len(matches) = 2
  /\ matches[1].timestamp > matches[2].timestamp
  /\ sortedMatches # matches
  /\ \E k \in 1..Len(players) : PlayedOf(stats, players[k].fullName) > 0

(***************************************************************************)
(* C18: a record synthesized for a name the roster lacks has category "?", *)
(* the one-element nickname list given below, and starts at 1200: after    *)
(* the match that creates it, its rating is calculateElo of 1200 against   *)
(* the rating the opponent held before the match.                          *)
(***************************************************************************)
Synthesized(name) == ~HasKey(stats, name) /\ HasKey(stats', name)

SynthesizedWith(nickname) ==
  \A name \in { Current.player1, Current.player2 } :
    Synthesized(name) =>
      \E opponent \in { IF name = Current.player2
                           THEN Current.player1 ELSE Current.player2 },
         score2 \in { IF name = Current.player2
                         THEN 2 - ActualScoreP1(Current)
                         ELSE ActualScoreP1(Current) } :
        /\ Lookup(stats', name).nicknames = <<nickname>>
        /\ Lookup(stats', name).category = "?"
        /\ Lookup(stats', name).rating =
             calculateElo(INITIAL_RATING, RatingOf(stats, opponent), score2)

\* As the claim states it: the nickname is "Unknown".
C18_GhostNicknameUnknown ==
  [][ Replaying => SynthesizedWith("Unknown") ]_vars

\* As the code has it: the nickname is "Desconhecido".
C18_GhostNicknameDesconhecido ==
  [][ Replaying => SynthesizedWith("Desconhecido") ]_vars

\* A name the roster lacks has played its first match against a roster
\* player.
C18_Witness ==
  /\ pc = "loop"
  /\ next = 2
  /\ \E name \in { sortedMatches[1].player1, sortedMatches[1].player2 } :
       /\ name \notin RosterNames
       /\ Lookup(stats, name).category = "?"
       /\ Lookup(stats, name).matchesPlayed = 1
  /\ \E name \in { sortedMatches[1].player1, sortedMatches[1].player2 } :
       name \in RosterNames

(***************************************************************************)
(* C19: what computeRankings returns is what comes of applying the update  *)
(* of one match at a time to the initial records, every match of the input *)
(* once, in ascending order of timestamp and, among equal timestamps, in   *)
(* the order of the input array.                                           *)
(***************************************************************************)
\* f lists the positions of the input by timestamp, then by position.
AscendingStable(s, f) ==
  \A a, b \in 1..Len(s) :
    a < b => \/ s[f[a]].timestamp < s[f[b]].timestamp
             \/ (s[f[a]].timestamp = s[f[b]].timestamp /\ f[a] < f[b])

\* The sum of the matchesPlayed counters of a list of records.
RECURSIVE TotalPlayed(_)
TotalPlayed(records) ==
  IF records = <<>> THEN 0
  ELSE records[1].matchesPlayed + TotalPlayed(Tail(records))

C19_ReplayedOnceInTimestampOrder ==
  pc = "done" =>
    \E f \in Permutations(1..Len(matches)) :
      /\ AscendingStable(matches, f)
      /\ \E oneByOne \in { ReplayFrom(InitStats(players),
                                       Permuted(matches, f), 1) } :
           /\ Len(oneByOne) = Len(rankings)
           /\ \A k \in 1..Len(oneByOne) :
                Ranked(oneByOne[k].name) = oneByOne[k]
      /\ TotalPlayed(rankings) = 2 * Len(matches)

\* The call has returned for two matches of one timestamp whose order
\* decides the ratings.
C19_Witness ==
  /\ pc = "done"
  /\ Len(matches) = 2
  /\ matches[1].timestamp = matches[2].timestamp
  /\ matches[1] # matches[2]
  /\ computeRankings(<<matches[2], matches[1]>>, players) # rankings

(***************************************************************************)
(* C20: replaying a match between two different players gives side 1 the   *)
(* rating calculateElo(old1, old2, outcome1) and side 2 the rating         *)
(* calculateElo(old2, old1, 1 - outcome1), old1 and old2 being the ratings *)
(* the two held before the match; neither is computed from the other's new *)
(* rating. (Outcomes are doubled: 2 - outcome stands for 1 - outcome.)     *)
(***************************************************************************)
C20_BothFromRatingsBefore ==
  [][ (Replaying /\ Current.player1 # Current.player2) =>
        \E old1 \in { RatingOf(stats, Current.player1) },
           old2 \in { RatingOf(stats, Current.player2) } :
          /\ Lookup(stats', Current.player1).rating =
               calculateElo(old1, old2, ActualScoreP1(Current))
          /\ Lookup(stats', Current.player2).rating =
               calculateElo(old2, old1, 2 - ActualScoreP1(Current))
    ]_vars

\* Ana has beaten "7" twice: the second match found them at 1216 and 1184
\* and left them at 1231 and 1169 (1170 had side 2 been rated against 1231).
C20_Witness ==
  /\ pc = "loop"
  /\ next = 3
  /\ sortedMatches[2].player1 = "Ana"
  /\ sortedMatches[2].player2 = "7"
  /\ Lookup(stats, "Ana").rating = 1231
  /\ Lookup(stats, "7").rating = 1169

(***************************************************************************)
(* C21: replaying a match with score1 > score2 adds 1 to the wins of       *)
(* player1 and 1 to the losses of player2 and changes no other wins or     *)
(* losses counter; with score2 > score1 the sides are exchanged; a tie     *)
(* changes none. Side 1 is rated with outcome 1, 0 or 0.5 (doubled: 2, 0,  *)
(* 1) as score1 is above, below or equal to score2, side 2 with 1 minus    *)
(* that outcome.                                                           *)
(***************************************************************************)
C21_OutcomeFromScores ==
  [][ Replaying =>
        \E w \in { IF Current.score1 > Current.score2 THEN Current.player1
                    ELSE IF Current.score2 > Current.score1
                      THEN Current.player2 ELSE "" },
           l \in { IF Current.score1 > Current.score2 THEN Current.player2
                    ELSE IF Current.score2 > Current.score1
                      THEN Current.player1 ELSE "" },
           outcome1 \in { IF Current.score1 > Current.score2 THEN 2
                           ELSE IF Current.score1 < Current.score2 THEN 0
                           ELSE 1 } :
          /\ \A name \in RosterNames \cup PlayedNames :
               /\ WinsOf(stats', name) =
                    WinsOf(stats, name) + (IF name = w THEN 1 ELSE 0)
               /\ LossesOf(stats', name) =
                    LossesOf(stats, name) + (IF name = l THEN 1 ELSE 0)
          /\ Current.player1 # Current.player2 =>
               /\ Lookup(stats', Current.player1).rating =
                    calculateElo(RatingOf(stats, Current.player1),
                                 RatingOf(stats, Current.player2), outcome1)
               /\ Lookup(stats', Current.player2).rating =
                    calculateElo(RatingOf(stats, Current.player2),
                                 RatingOf(stats, Current.player1),
                                 2 - outcome1)
    ]_vars

\* Side 2 has won the second match, after a tie in the first.
C21_Witness ==
  /\ pc = "loop"
  /\ next = 3
  /\ sortedMatches[1].score1 = sortedMatches[1].score2
  /\ sortedMatches[2].score2 > sortedMatches[2].score1
  /\ sortedMatches[2].player1 # sortedMatches[2].player2
  /\ Lookup(stats, sortedMatches[2].player2).wins = 1
  /\ Lookup(stats, sortedMatches[2].player1).losses = 1
  /\ Lookup(stats, sortedMatches[2].player1).wins = 0

(***************************************************************************)
(* C22: of two returned records with the same rating, the one whose stats  *)
(* entry was created first comes first (stats lists the entries in the     *)
(* order of their creation: the roster in its order, then the synthesized  *)
(* ones as the replay meets them).                                         *)
(***************************************************************************)
CreatedAt(name) == CHOOSE k \in 1..Len(stats) : stats[k].name = name

C22_TiesInCreationOrder ==
  pc = "done" =>
    \A a, b \in 1..Len(rankings) :
      (a < b /\ rankings[a].rating = rankings[b].rating) =>
        CreatedAt(rankings[a].name) < CreatedAt(rankings[b].name)

(***************************************************************************)
(* C23: at most one call of handleProcessMatch is in flight, that is,      *)
(* between its setIsProcessing(true) and its finally, at any time.         *)
(***************************************************************************)
C23_OneSubmissionInFlight == Len(calls) <= 1

Occurrences(name) ==
  { <<k, 1>> : k \in { j \in 1..Len(matches) : matches[j].player1 = name } }
    \cup
  { <<k, 2>> : k \in { j \in 1..Len(matches) : matches[j].player2 = name } }

Decided(k) == matches[k].score1 # matches[k].score2

RECURSIVE TotalWins(_)
TotalWins(records) ==
  IF records = <<>> THEN 0 ELSE records[1].wins + TotalWins(Tail(records))

RECURSIVE TotalLosses(_)
TotalLosses(records) ==
  IF records = <<>> THEN 0 ELSE records[1].losses + TotalLosses(Tail(records))

C25_CountersCountOccurrences ==
  pc = "done" =>
    /\ \A k \in 1..Len(rankings) :
         /\ rankings[k].matchesPlayed =
              Cardinality(Occurrences(rankings[k].name))
         /\ rankings[k].wins + rankings[k].losses =
              Cardinality({ o \in Occurrences(rankings[k].name) :
                            Decided(o[1]) })
         /\ rankings[k].wins + rankings[k].losses <= rankings[k].matchesPlayed
    /\ TotalWins(rankings) = TotalLosses(rankings)

\* The call has returned for a decided match and a tie between the same
\* two players.
C25_Witness ==
  /\ pc = "done"
  /\ Len(matches) = 2
  /\ Decided(1)
  /\ ~Decided(2)
  /\ matches[1].player1 # matches[1].player2
  /\ matches[2].player1 # matches[2].player2
  /\ \E k \in 1..Len(rankings) :
       /\ rankings[k].matchesPlayed = 2
       /\ rankings[k].wins = 1
       /\ rankings[k].losses = 0

(***************************************************************************)
(* C26: replaying a match between two different players, whatever ratings  *)
(* they hold, changes the sum of their two ratings by at most 1 and no     *)
(* other rating, so that each such match moves the sum of all ratings by   *)
(* at most 1.                                                              *)
(***************************************************************************)
RECURSIVE TotalRating(_)
TotalRating(records) ==
  IF records = <<>> THEN 0 ELSE records[1].rating + TotalRating(Tail(records))

C26_RatingSumWithinOne ==
  [][ (Replaying /\ Current.player1 # Current.player2) =>
        \E before \in { RatingOf(stats, Current.player1)
                           + RatingOf(stats, Current.player2) },
           after \in { Lookup(stats', Current.player1).rating
                          + Lookup(stats', Current.player2).rating } :
          /\ after - before \in { -1, 0, 1 }
          /\ TotalRating(stats') - TotalRating(stats) = after - before
    ]_vars

\* The lower-rated side 1 has beaten a side 2 rated far above it, and the
\* ratings have moved.
C26_Witness ==
  /\ pc = "loop"
  /\ next = 2
  /\ sortedMatches[1].score1 > sortedMatches[1].score2
  /\ Lookup(stats, sortedMatches[1].player1).rating > INITIAL_RATING + 16
  /\ Lookup(stats, sortedMatches[1].player2).rating > INITIAL_RATING + 400

(***************************************************************************)
(* C27: replaying a match between two different players, whatever ratings  *)
(* they hold, never lowers the rating of the winner and never raises that  *)
(* of the loser; a tie never raises the rating of the higher-rated of the  *)
(* two and never lowers that of the lower-rated.                           *)
(***************************************************************************)
C27_RatingsMoveWithOutcome ==
  [][ (Replaying /\ Current.player1 # Current.player2) =>
        \E old1 \in { RatingOf(stats, Current.player1) },
           old2 \in { RatingOf(stats, Current.player2) },
           new1 \in { Lookup(stats', Current.player1).rating },
           new2 \in { Lookup(stats', Current.player2).rating } :
          /\ Current.score1 > Current.score2 => (new1 >= old1 /\ new2 <= old2)
          /\ Current.score2 > Current.score1 => (new2 >= old2 /\ new1 <= old1)
          /\ (Current.score1 = Current.score2 /\ old1 > old2) =>
               (new1 <= old1 /\ new2 >= old2)
          /\ (Current.score1 = Current.score2 /\ old2 > old1) =>
               (new2 <= old2 /\ new1 >= old1)
    ]_vars

\* A tie has been replayed between side 1 and a higher-rated side 2, and it
\* has cost side 2 points.
C27_Witness ==
  /\ pc = "loop"
  /\ next = 2
  /\ sortedMatches[1].score1 = sortedMatches[1].score2
  /\ Lookup(stats, sortedMatches[1].player1).rating > INITIAL_RATING
  /\ Lookup(stats, sortedMatches[1].player2).rating > INITIAL_RATING + 100

(***************************************************************************)
(* C28: when the parsing call and the store write always return or fail,   *)
(* isProcessing, once a call of handleProcessMatch has set it, becomes     *)
(* false again, whichever way the call ends.                               *)
(***************************************************************************)
C28_ProcessingEnds == isProcessing ~> ~isProcessing

\* A submission has ended by a call that failed, and isProcessing is
\* false again.
C28_Witness ==
  /\ pc = "app"
  /\ ~isProcessing
  /\ calls = <<>>
  /\ error = ErrCallFailed
  /\ inputText # ""

(***************************************************************************)
(* C29: a call of handleProcessMatch with text that is not blank, made     *)
(* while the roster holds fewer than two players, sets the error message,  *)
(* starts no parsing call, writes no match and leaves isProcessing as it   *)
(* is; a call with blank text changes nothing. (A speech result stores the *)
(* transcript and clears isListening before it makes the call.)            *)
(***************************************************************************)
C29_GuardsWriteNothing ==
  [][ /\ (SubmitTyped /\ Trim(inputText) # "" /\ Len(players) < 2) =>
           /\ error' = ErrNeedPlayers
           /\ UNCHANGED <<isProcessing, calls, dbMatches, nextId>>
      /\ (SubmitTyped /\ Trim(inputText) = "") => UNCHANGED vars
      /\ \A transcript \in Transcripts :
           (SpeechResult(transcript) /\ Len(players) < 2) =>
             /\ error' = ErrNeedPlayers
             /\ UNCHANGED <<isProcessing, calls, dbMatches, nextId>>
    ]_vars

\* A submission has been refused for want of players.
C29_Witness ==
  /\ pc = "app"
  /\ error = ErrNeedPlayers
  /\ Len(players) < 2
  /\ Trim(inputText) # ""
  /\ ~isProcessing
  /\ calls = <<>>
  /\ dbMatches = {}

====
